---- MODULE Spec2Model ----
(***************************************************************************)
(* Marker clustering of the interactive map                                *)
(* (src/src/components/common/MapWithClustering.tsx).                      *)
(*                                                                         *)
(* createClusters is a synchronous function of a location list, a Leaflet  *)
(* map and a pixel distance.  It is modelled as an operator that walks the *)
(* two nested forEach loops exactly as the code does; the MapWithClustering*)
(* component that calls it is modelled as a state machine over its props,  *)
(* its clusters state and the viewport of the Leaflet map it owns.         *)
(*                                                                         *)
(* Coordinates are integers.  One coordinate unit is one pixel at the      *)
(* default zoom, every zoom level above it doubles the scale, and container*)
(* points are measured from the pixel of the view centre.  Leaflet rounds  *)
(* container points to whole pixels, so integer pixels are what the code   *)
(* compares.  All catalogue coordinates are even, so the /2 of getCenter   *)
(* is exact.                                                               *)
(*                                                                         *)
(* Further parts of the app are modelled beside it, each with its own      *)
(* next-state relation over its own variables: createClusters statement by *)
(* statement (SpecPasses, SpecReentrant), authentication with route        *)
(* guarding (SpecRoute), the reducer of the AuthProvider alone             *)
(* (SpecReducer), helpful votes on a review (SpecVote), the auth service   *)
(* with the AuthProvider calling it (SpecAuth), the messaging service      *)
(* (SpecMessaging), the useMessaging hook on top of it (SpecHook) and the  *)
(* follow list of the community service (SpecCommunity).                   *)
(***************************************************************************)
EXTENDS Integers, Sequences, FiniteSets, Bags

VARIABLES
    locations,        \* prop locations: the list handed to the component
    clusterDistance,  \* prop clusterDistance
    map,              \* viewport of the Leaflet map (zoom, centre)
    mapReady,         \* mapRef.current is set
    mounted,          \* the component is mounted (no effect has thrown)
    clusters,         \* React state clusters: what is rendered
    pass,             \* the createClusters call made by the last step, if any
    auth,             \* AuthProvider's reducer state
    authCall,         \* the asynchronous call of the provider in flight
    routeLocation,    \* useLocation(): the current location of the router
    rendered,         \* what the element of the matched route rendered
    helpfulVotes,     \* reviews_data: helpfulVotes of the stored review
    reviewVotes,      \* review_votes: the user's vote on the review is recorded
    card,             \* the ReviewCard instance showing the review
    votesInFlight,    \* voteHelpful calls waiting on their timer
    runs,             \* createClusters calls of the views, statement by statement
    service,          \* authService: its token field, and localStorage
    pending,          \* login, register and logout calls waiting on their timer
    accounts,         \* per email: what the user has done so far
    lastLogin,        \* the last login call and how it was answered
    clock,            \* Date.now()
    store,            \* messagingService: its conversations and messages maps
    lastReturn,       \* what the last call of the messaging service returned
    sendsMade,        \* how many sendMessage calls have been made
    hook,             \* the React state of one useMessaging instance
    hookCalls,        \* the service calls of the hook waiting for their timer
    follows,          \* communityService.follows
    notifications,    \* communityService.notifications
    lastFollow        \* the last followUser/unfollowUser call and its outcome

mapVars == <<locations, clusterDistance, map, mapReady, mounted, clusters,
             pass>>

routeVars == <<auth, authCall, routeLocation, rendered>>

voteVars == <<helpfulVotes, reviewVotes, card, votesInFlight>>

runVars == <<runs>>

authVars == <<service, pending, accounts, lastLogin>>

msgVars == <<clock, store, lastReturn, sendsMade>>

hookVars == <<hook, hookCalls>>
followVars == <<follows, notifications, lastFollow>>
vars == <<mapVars, routeVars, voteVars, runVars, authVars, msgVars, hookVars,
          followVars>>

----------------------------------------------------------------------------
(* Bounds and input domains *)

MaxPoints == 3

DefaultClusterDistance == 50

DefaultZoom == 5

Loc(id, lat, lng) == [id |-> id, latitude |-> lat, longitude |-> lng]

\* A coordinate that is not a number; Leaflet refuses to build a LatLng
\* from it.
NaN == -1000

\* The locations the point source can supply.  "a" and "g" lie on the same
\* spot; "f" and "h" share a longitude; "x" has no usable coordinates.
\* A list may hold an entry twice.
Catalogue ==
    { Loc("a", 0, 0),   Loc("b", 0, 10),  Loc("c", 0, 18),
      Loc("e", 10, 10), Loc("f", 20, 30), Loc("g", 0, 0),
      Loc("h", 10, 30), Loc("x", NaN, NaN) }

Thresholds == {-10, 0, 20, DefaultClusterDistance}

Zooms == {DefaultZoom, DefaultZoom + 1}

DefaultCenter == <<0, 0>>

Views == [zoom : Zooms, center : {DefaultCenter}]

NoMap == [zoom |-> -1, center |-> <<0, 0>>]

NoPass == [called |-> FALSE]

----------------------------------------------------------------------------
(* Leaflet geometry used by createClusters *)

Scale(zoom) == 2 ^ (zoom - DefaultZoom)

\* Faulty variant of InvalidLatLng: nothing is refused.
InvalidLatLngNever(lat, lng) == FALSE

\* map.latLngToContainerPoint([lat, lng]) throws 'Invalid LatLng object'
\* when a coordinate is not a number.
InvalidLatLng(lat, lng) == lat = NaN \/ lng = NaN

\* map.latLngToContainerPoint([lat, lng])
latLngToContainerPoint(m, lat, lng) ==
    [x |-> (lng - m.center[2]) * Scale(m.zoom),
     y |-> (m.center[1] - lat) * Scale(m.zoom)]

\* Faulty variant of SquaredDistance: the x axis only.
SquaredDistanceXOnly(p, q) == (p.x - q.x) * (p.x - q.x)

\* Point.distanceTo, squared: dx*dx + dy*dy
SquaredDistance(p, q) ==
    (p.x - q.x) * (p.x - q.x) + (p.y - q.y) * (p.y - q.y)

\* Faulty variant of WithinClusterDistance: strict comparison.
WithinClusterDistanceStrict(p, q, d) ==
    d > 0 /\ SquaredDistance(p, q) < d * d

\* distance <= clusterDistance, where distance = sqrt(SquaredDistance) >= 0
WithinClusterDistance(p, q, d) ==
    d >= 0 /\ SquaredDistance(p, q) <= d * d

Min(S) == CHOOSE v \in S : \A w \in S : v <= w
Max(S) == CHOOSE v \in S : \A w \in S : v >= w

Range(s) == { s[k] : k \in DOMAIN s }

\* new L.LatLngBounds(latlngs): the extent of the given coordinates
LatLngBounds(locs) ==
    [south |-> Min({ l.latitude : l \in Range(locs) }),
     north |-> Max({ l.latitude : l \in Range(locs) }),
     west  |-> Min({ l.longitude : l \in Range(locs) }),
     east  |-> Max({ l.longitude : l \in Range(locs) })]

\* Faulty variant of getCenter: the south-west corner.
getCenterCorner(b) == [lat |-> b.south, lng |-> b.west]

\* bounds.getCenter()
getCenter(b) ==
    [lat |-> (b.south + b.north) \div 2, lng |-> (b.west + b.east) \div 2]

----------------------------------------------------------------------------
(* createClusters *)

\* Faulty variant of IsClusterSize: every group becomes a cluster.
IsClusterSizeAny(nearbyLocations) == Len(nearbyLocations) >= 1

\* nearbyLocations.length > 1
IsClusterSize(nearbyLocations) == Len(nearbyLocations) > 1

\* The ClusterGroup pushed for a group.
ClusterGroup(nearbyLocations) ==
    LET bounds == LatLngBounds(nearbyLocations)
        center == getCenter(bounds)
    IN  [center    |-> <<center.lat, center.lng>>,
         locations |-> nearbyLocations,
         bounds    |-> bounds]

\* 'locations' in item
IsCluster(item) == "locations" \in DOMAIN item

\* Faulty variant of Push: the new member is put in front.
PushFront(nearbyLocations, otherLocation) ==
    <<otherLocation>> \o nearbyLocations

\* nearbyLocations.push(otherLocation)
Push(nearbyLocations, otherLocation) ==
    Append(nearbyLocations, otherLocation)

\* Faulty variant of MarkProcessed: the id is not remembered.
MarkProcessedNot(processed, id) == processed

\* processed.add(id)
MarkProcessed(processed, id) == processed \cup {id}

\* Faulty variant of ScanNearby: each candidate is compared with the
\* member pushed last, so that groups chain from member to member.
RECURSIVE ScanNearbyChained(_, _, _, _, _, _)
ScanNearbyChained(locs, m, d, locationPoint, j, st) ==
    IF j > Len(locs) THEN st
    ELSE LET otherLocation == locs[j] IN
         IF otherLocation.id \in st.processed
         THEN ScanNearbyChained(locs, m, d, locationPoint, j + 1, st)
         ELSE IF InvalidLatLng(otherLocation.latitude,
                               otherLocation.longitude)
         THEN [st EXCEPT !.thrown = TRUE, !.projected = @ + 1]
         ELSE LET otherPoint == latLngToContainerPoint(
                      m, otherLocation.latitude, otherLocation.longitude)
                  last == st.nearbyLocations[Len(st.nearbyLocations)]
                  lastPoint == latLngToContainerPoint(
                      m, last.latitude, last.longitude)
              IN  IF WithinClusterDistance(lastPoint, otherPoint, d)
                  THEN ScanNearbyChained(locs, m, d, locationPoint, j + 1,
                         [nearbyLocations |->
                              Push(st.nearbyLocations, otherLocation),
                          processed |->
                              MarkProcessed(st.processed, otherLocation.id),
                          projected |-> st.projected + 1,
                          thrown |-> FALSE])
                  ELSE ScanNearbyChained(locs, m, d, locationPoint, j + 1,
                         [st EXCEPT !.projected = @ + 1])

\* The inner forEach: scan all locations from index j on for ones near the
\* seed's container point.
\* st = [nearbyLocations, processed, projected, thrown]; a projection that
\* throws ends the scan at once with thrown set.
RECURSIVE ScanNearby(_, _, _, _, _, _)
ScanNearby(locs, m, d, locationPoint, j, st) ==
    IF j > Len(locs) THEN st
    ELSE LET otherLocation == locs[j] IN
         IF otherLocation.id \in st.processed
         THEN ScanNearby(locs, m, d, locationPoint, j + 1, st)
         ELSE IF InvalidLatLng(otherLocation.latitude,
                               otherLocation.longitude)
         THEN [st EXCEPT !.thrown = TRUE, !.projected = @ + 1]
         ELSE LET otherPoint == latLngToContainerPoint(
                      m, otherLocation.latitude, otherLocation.longitude)
              IN  IF WithinClusterDistance(locationPoint, otherPoint, d)
                  THEN ScanNearby(locs, m, d, locationPoint, j + 1,
                         [nearbyLocations |->
                              Push(st.nearbyLocations, otherLocation),
                          processed |->
                              MarkProcessed(st.processed, otherLocation.id),
                          projected |-> st.projected + 1,
                          thrown |-> FALSE])
                  ELSE ScanNearby(locs, m, d, locationPoint, j + 1,
                         [st EXCEPT !.projected = @ + 1])

\* The outer forEach from index i on.
\* st = [clusters, processed, groups, projected, thrown]; groups records
\* the nearbyLocations array of every seed, in seed order.  A projection
\* that throws ends the loop at once with thrown set.
RECURSIVE SeedLoop(_, _, _, _, _)
SeedLoop(locs, m, d, i, st) ==
    IF i > Len(locs) THEN st
    ELSE LET location == locs[i] IN
         IF location.id \in st.processed
         THEN SeedLoop(locs, m, d, i + 1, st)
         ELSE IF InvalidLatLng(location.latitude, location.longitude)
         THEN [st EXCEPT !.thrown = TRUE, !.projected = @ + 1]
         ELSE LET locationPoint == latLngToContainerPoint(
                      m, location.latitude, location.longitude)
                  scan == ScanNearby(locs, m, d, locationPoint, 1,
                            [nearbyLocations |-> <<location>>,
                             processed |->
                                 MarkProcessed(st.processed, location.id),
                             projected |-> st.projected + 1,
                             thrown |-> FALSE])
              IN  IF scan.thrown
                  THEN [st EXCEPT !.thrown = TRUE,
                                  !.processed = scan.processed,
                                  !.projected = scan.projected]
                  ELSE SeedLoop(locs, m, d, i + 1,
                    [clusters  |-> IF IsClusterSize(scan.nearbyLocations)
                                   THEN Append(st.clusters,
                                          ClusterGroup(scan.nearbyLocations))
                                   ELSE st.clusters,
                     processed |-> scan.processed,
                     groups    |-> Append(st.groups, scan.nearbyLocations),
                     projected |-> scan.projected,
                     thrown    |-> FALSE])

\* Faulty variant of EarlyReturn: a placeholder marker at the view centre.
EarlyReturnPlaceholder(locs, m) ==
    <<Loc("", m.center[1], m.center[2])>>

\* if (!map || locations.length === 0) return locations;
EarlyReturn(locs, m) == locs

\* What a call that threw hands back: nothing.
NoResult == [nothing |-> TRUE]

\* Faulty variant of ClusterRun: an error of the projection is swallowed
\* and the clusters built so far are returned.
ClusterRunPartial(locs, m, d) ==
    IF m = NoMap \/ Len(locs) = 0
    THEN [thrown |-> FALSE, result |-> EarlyReturn(locs, m),
          groups |-> <<>>, projected |-> 0]
    ELSE LET st == SeedLoop(locs, m, d, 1,
                     [clusters |-> <<>>, processed |-> {},
                      groups |-> <<>>, projected |-> 0, thrown |-> FALSE])
         IN  [thrown    |-> FALSE,
              result    |-> st.clusters \o
                            SelectSeq(locs,
                                LAMBDA l : l.id \notin st.processed),
              groups    |-> st.groups,
              projected |-> st.projected]

\* One run of createClusters, with the internals a caller cannot see
\* (groups, projected) kept next to the returned result.
\* thrown: the call ended with an exception.
ClusterRun(locs, m, d) ==
    IF m = NoMap \/ Len(locs) = 0
    THEN [thrown |-> FALSE, result |-> EarlyReturn(locs, m),
          groups |-> <<>>, projected |-> 0]
    ELSE LET st == SeedLoop(locs, m, d, 1,
                     [clusters |-> <<>>, processed |-> {},
                      groups |-> <<>>, projected |-> 0, thrown |-> FALSE])
         IN  IF st.thrown
             THEN [thrown |-> TRUE, result |-> NoResult,
                   groups |-> st.groups, projected |-> st.projected]
             ELSE [thrown    |-> FALSE,
                   result    |-> st.clusters \o
                                 SelectSeq(locs,
                                     LAMBDA l : l.id \notin st.processed),
                   groups    |-> st.groups,
                   projected |-> st.projected]

createClusters(locs, m, d) == ClusterRun(locs, m, d).result

\* The record of one call.
Call(locs, m, d) ==
    LET run == ClusterRun(locs, m, d)
    IN  [called |-> TRUE, locations |-> locs, map |-> m,
         clusterDistance |-> d, thrown |-> run.thrown,
         result |-> run.result, groups |-> run.groups,
         projected |-> run.projected]

----------------------------------------------------------------------------
(* Authentication state and route guarding                                 *)
(* (src/src/context/AuthContext.tsx, src/src/constants/routes.ts,          *)
(*  src/src/components/common/ProtectedRoute.tsx).                         *)

Users == {"u1", "u2"}

NoUser == "null"

NoError == "null"

ROUTES ==
    [HOME |-> "/", LOGIN |-> "/login", REGISTER |-> "/register",
     PROFILE |-> "/profile", DASHBOARD |-> "/dashboard",
     LOCATION_DETAIL |-> "/location",
     SUBMIT_LOCATION |-> "/submit-location", SEARCH |-> "/search"]

\* The URLs a user opens: one path per route of the router, with and
\* without a query string.
Paths ==
    {ROUTES.HOME, ROUTES.LOGIN, ROUTES.REGISTER, "/profile/7",
     ROUTES.DASHBOARD, "/locations/1", ROUTES.SUBMIT_LOCATION, ROUTES.SEARCH}

Searches == {"", "?tab=reviews"}

\* location.state of a navigation that carried none.
NoState == [none |-> TRUE]

Location(pathname, search, state) ==
    [pathname |-> pathname, search |-> search, state |-> state]

initialState ==
    [user |-> NoUser, isAuthenticated |-> FALSE, loading |-> TRUE,
     error |-> NoError]

\* Faulty variant of authReducer: AUTH_SUCCESS leaves the error in place.
authReducerKeepsError(state, action) ==
    CASE action.type = "AUTH_START" ->
           [state EXCEPT !.loading = TRUE, !.error = NoError]
      [] action.type = "AUTH_SUCCESS" ->
           [state EXCEPT !.user = action.payload, !.isAuthenticated = TRUE,
                         !.loading = FALSE]
      [] action.type = "AUTH_ERROR" ->
           [state EXCEPT !.user = NoUser, !.isAuthenticated = FALSE,
                         !.loading = FALSE, !.error = action.payload]
      [] action.type = "AUTH_LOGOUT" ->
           [state EXCEPT !.user = NoUser, !.isAuthenticated = FALSE,
                         !.loading = FALSE, !.error = NoError]
      [] action.type = "CLEAR_ERROR" ->
           [state EXCEPT !.error = NoError]
      [] OTHER -> state

authReducer(state, action) ==
    CASE action.type = "AUTH_START" ->
           [state EXCEPT !.loading = TRUE, !.error = NoError]
      [] action.type = "AUTH_SUCCESS" ->
           [state EXCEPT !.user = action.payload, !.isAuthenticated = TRUE,
                         !.loading = FALSE, !.error = NoError]
      [] action.type = "AUTH_ERROR" ->
           [state EXCEPT !.user = NoUser, !.isAuthenticated = FALSE,
                         !.loading = FALSE, !.error = action.payload]
      [] action.type = "AUTH_LOGOUT" ->
           [state EXCEPT !.user = NoUser, !.isAuthenticated = FALSE,
                         !.loading = FALSE, !.error = NoError]
      [] action.type = "CLEAR_ERROR" ->
           [state EXCEPT !.error = NoError]
      [] OTHER -> state

\* The route table: which element a pathname is matched to.
router(pathname) ==
    IF pathname \in {ROUTES.LOGIN, ROUTES.REGISTER}
    THEN [guarded |-> TRUE, requireAuth |-> FALSE]
    ELSE IF pathname \in {"/profile/7", ROUTES.DASHBOARD,
                          ROUTES.SUBMIT_LOCATION}
    THEN [guarded |-> TRUE, requireAuth |-> TRUE]
    ELSE [guarded |-> FALSE, requireAuth |-> FALSE]

\* <Navigate to={to} state={state} replace />.  A string `to` is a path
\* without query string.
Navigate(to, state) ==
    [kind |-> "Navigate", to |-> [pathname |-> to, search |-> ""],
     state |-> state]

\* What the ProtectedRoute component returns.
ProtectedRoute(requireAuth, redirectTo, state, loc) ==
    IF state.loading
    THEN [kind |-> "Loading"]
    ELSE IF requireAuth /\ ~state.isAuthenticated
    THEN Navigate(redirectTo, [from |-> loc])
    ELSE IF ~requireAuth /\ state.isAuthenticated
    THEN LET from == IF loc.state # NoState
                     THEN loc.state.from.pathname
                     ELSE ROUTES.DASHBOARD
         IN  Navigate(from, NoState)
    ELSE [kind |-> "children"]

\* The element of the route matched by loc, rendered under auth state.
Render(state, loc) ==
    IF router(loc.pathname).guarded
    THEN ProtectedRoute(router(loc.pathname).requireAuth, ROUTES.LOGIN,
                        state, loc)
    ELSE [kind |-> "page"]

----------------------------------------------------------------------------
(* Helpful votes on a review                                               *)
(* (src/src/components/review/ReviewCard.tsx and ReviewService in          *)
(*  src/src/context/AuthContext.tsx): one stored review, one logged-in     *)
(* user.                                                                   *)

\* How many times the card is mounted.
MaxMounts == 4

\* reviewService.hasUserVoted(review.id)
hasUserVoted == reviewVotes

\* A ReviewCard instance before its first effect: useState(false) twice.
\* instance tells the instances of successive mounts apart.
NewCard(instance) ==
    [mounted |-> TRUE, instance |-> instance, isVoting |-> FALSE,
     hasVoted |-> FALSE]

----------------------------------------------------------------------------
(* createClusters statement by statement: the locals of every call in      *)
(* progress, for the calls of two map views side by side.                  *)

\* Length of the lists handed to the calls of the views.
MaxRunPoints == 2

\* The maps of the two views: same centre, one zoom level apart.
SplitViews ==
    << [zoom |-> DefaultZoom, center |-> DefaultCenter],
       [zoom |-> DefaultZoom + 1, center |-> DefaultCenter] >>

Slots == DOMAIN SplitViews

\* Two locations of the catalogue and a third that carries the id of the
\* first at another place.
RunCatalogue == {Loc("a", 0, 0), Loc("b", 0, 10), Loc("a", 20, 30)}

RunLists == UNION { [1..n -> RunCatalogue] : n \in 0..MaxRunPoints }

\* Length of the lists handed to the calls made one after the other.
MaxPassPoints == 3

PassLists == UNION { [1..n -> RunCatalogue] : n \in 0..MaxPassPoints }

\* A view that has not called createClusters yet.
IdleRun ==
    [pc |-> "idle", locations |-> <<>>, map |-> NoMap, clusterDistance |-> 0,
     given |-> [locations |-> <<>>, map |-> NoMap, clusterDistance |-> 0],
     i |-> 0, j |-> 0, locationPoint |-> <<0, 0>>, nearbyLocations |-> <<>>,
     clusters |-> <<>>, processed |-> {}, result |-> NoResult,
     earlier |-> {}, overlapped |-> FALSE]

\* The call is inside one of its forEach loops.
Running(run) == run.pc \in {"outer", "inner"}

\* Faulty variant of NewProcessed: the set outlives the call.
NewProcessedKept(run) == run.processed

\* const processed = new Set<string>();
NewProcessed(run) == {}

\* Faulty variant of Processed: one set for the calls of all views.
ProcessedShared(rs, s) == UNION { rs[t].processed : t \in Slots }

\* processed as the call of view s reads it: its own local.
Processed(rs, s) == rs[s].processed

----------------------------------------------------------------------------
(* The authentication service (src/src/services/authService.ts) under the  *)
(* AuthProvider (src/src/context/AuthContext.tsx).                         *)

Emails == {"ann@example.org", "bob@example.org"}

\* How many login, register and logout calls wait on their timers at once.
MaxPending == 2

\* null, for the token and the entries of localStorage.
Null == "null"

\* `mock_token_${Date.now()}`
MockToken == "mock_token"

\* ERROR_MESSAGES.UNAUTHORIZED
UNAUTHORIZED == "You need to log in to perform this action."

\* authService.isAuthenticated()
isAuthenticated(svc) == svc.token # Null /\ svc.user_data # Null

\* authService.getCurrentUser(): the stored user, known by its email.
getCurrentUser(svc) == svc.user_data

\* No login call has been made.
NoLogin == [email |-> Null, after |-> "none", accepted |-> FALSE]

----------------------------------------------------------------------------
(* The messaging service (src/src/services/messagingService.ts).           *)
(* Ids are numbers: conv_1, conv_2 and msg_1..msg_3 of the mock data are   *)
(* 1, 2 and 1..3, `conv_${Date.now()}` and `msg_${Date.now()}` are the     *)
(* value of the clock.  A Map is the sequence of its entries in insertion  *)
(* order.                                                                  *)

CurrentUser == "current_user"

OtherUsers == {"user_2", "user_3", "user_4", "user_5"}

\* Date.now() when the page is loaded: later than every id of the mock data.
FirstNow == 10

\* How many milliseconds pass while the calls are made.
MaxTicks == 1

\* How many messages are sent.
MaxSends == 2

\* null, for an id.
NoId == 0

\* content is the number of the text: 0 for the texts of the mock data, n for
\* the text of the n-th message sent, so every message sent has its own.
Message(id, conversationId, senderId, receiverId, content, read) ==
    [id |-> id, conversationId |-> conversationId, senderId |-> senderId,
     receiverId |-> receiverId, content |-> content, read |-> read]

Conversation(id, userId, lastActivity, unreadCount, lastMessage) ==
    [id |-> id, participants |-> <<CurrentUser, userId>>,
     lastActivity |-> lastActivity, unreadCount |-> unreadCount,
     lastMessage |-> lastMessage]

\* The store after initializeMockData.
initializeMockData ==
    [conversations |-> << Conversation(1, "user_2", 2, 2, 2),
                          Conversation(2, "user_3", 1, 0, 3) >>,
     messages |-> [c \in {1, 2} |->
                     IF c = 1
                     THEN << Message(1, 1, "user_2", CurrentUser, 0, FALSE),
                             Message(2, 1, "user_2", CurrentUser, 0, FALSE) >>
                     ELSE << Message(3, 2, CurrentUser, "user_3", 0, TRUE) >>]]

\* Map.get(key) || []
GetOrEmpty(entries, key) == IF key \in DOMAIN entries THEN entries[key] ELSE <<>>

\* Map.set(key, value) on the messages map.
SetMessages(entries, key, value) ==
    [k \in DOMAIN entries \cup {key} |-> IF k = key THEN value ELSE entries[k]]

\* Map.set(conv.id, conv) on the conversations map: an entry with the same
\* key is replaced where it stands, a new key is added at the end.
SetConversation(convs, conv) ==
    IF \E k \in DOMAIN convs : convs[k].id = conv.id
    THEN [k \in DOMAIN convs |->
            IF convs[k].id = conv.id THEN conv ELSE convs[k]]
    ELSE Append(convs, conv)

\* The id of the first conversation of the map between userId and the
\* current user, or null.
findConversationWithUser(convs, userId) ==
    LET found == { k \in DOMAIN convs :
                     /\ userId \in Range(convs[k].participants)
                     /\ CurrentUser \in Range(convs[k].participants) }
    IN  IF found = {} THEN NoId ELSE convs[Min(found)].id

\* The store with a new, empty conversation with userId, made at time now.
WithNewConversation(st, userId, now) ==
    [conversations |-> SetConversation(st.conversations,
                          Conversation(now, userId, now, 0, NoId)),
     messages |-> SetMessages(st.messages, now, <<>>)]

\* sendMessage up to its timer: the store afterwards and the new message.
sendMessage(st, receiverId, content, now) ==
    LET found == findConversationWithUser(st.conversations, receiverId)
        conversationId == IF found = NoId THEN now ELSE found
        st1 == IF found = NoId
               THEN WithNewConversation(st, receiverId, now)
               ELSE st
        newMessage == Message(now, conversationId, CurrentUser, receiverId,
                              content, FALSE)
        conversationMessages ==
            Append(GetOrEmpty(st1.messages, conversationId), newMessage)
    IN  [store |->
           [conversations |->
              [k \in DOMAIN st1.conversations |->
                 IF st1.conversations[k].id = conversationId
                 THEN [st1.conversations[k] EXCEPT
                         !.lastMessage = newMessage.id,
                         !.lastActivity = now]
                 ELSE st1.conversations[k]],
            messages |-> SetMessages(st1.messages, conversationId,
                                     conversationMessages)],
         newMessage |-> newMessage]

\* Faulty variant of markAsRead: the unreadCount is left as it is.
markAsReadKeepsCount(st, conversationId) ==
    [conversations |-> st.conversations,
     messages |->
        [c \in DOMAIN st.messages |->
           IF c = conversationId
           THEN [n \in DOMAIN st.messages[c] |->
                   IF st.messages[c][n].receiverId = CurrentUser
                   THEN [st.messages[c][n] EXCEPT !.read = TRUE]
                   ELSE st.messages[c][n]]
           ELSE st.messages[c]]]

\* markAsRead up to its timer.
markAsRead(st, conversationId) ==
    [conversations |->
        [k \in DOMAIN st.conversations |->
           IF st.conversations[k].id = conversationId
           THEN [st.conversations[k] EXCEPT !.unreadCount = 0]
           ELSE st.conversations[k]],
     messages |->
        [c \in DOMAIN st.messages |->
           IF c = conversationId
           THEN [n \in DOMAIN st.messages[c] |->
                   IF st.messages[c][n].receiverId = CurrentUser
                   THEN [st.messages[c][n] EXCEPT !.read = TRUE]
                   ELSE st.messages[c][n]]
           ELSE st.messages[c]]]

\* startConversation up to its timer: the store afterwards and the id the
\* call returns.
startConversation(st, userId, now) ==
    LET existingConversationId ==
            findConversationWithUser(st.conversations, userId)
    IN  IF existingConversationId # NoId
        THEN [store |-> st, conversationId |-> existingConversationId]
        ELSE [store |-> WithNewConversation(st, userId, now),
              conversationId |-> now]

RECURSIVE SumUnreadFrom(_, _)
SumUnreadFrom(convs, k) ==
    IF k > Len(convs) THEN 0
    ELSE convs[k].unreadCount + SumUnreadFrom(convs, k + 1)

getUnreadCount(st) == SumUnreadFrom(st.conversations, 1)

\* No call of the service has returned yet.
NoReturn == [call |-> "none"]

----------------------------------------------------------------------------
(* The useMessaging hook (src/unnamed/part_011, lines 6-131).  The state   *)
(* messages is an array object.  getMessages hands out the very array the  *)
(* service keeps for the conversation (Array.prototype.sort sorts in place *)
(* and returns its receiver; the stored arrays are in createdAt order, so  *)
(* the sort moves nothing), and sendMessage pushes onto that array.  The   *)
(* state is therefore either an array of the hook's own (alias = NoId,     *)
(* messages holds it) or the stored array of conversation alias.           *)

\* How many calls the user starts while others are still waiting.
MaxCalls == 1

\* The users the component writes to: one with a conversation, one without.
HookUsers == {"user_2", "user_4"}

\* useState(...) of the five states, before the effects of the first render.
initialHook ==
    [mounted |-> FALSE, conversations |-> <<>>, messages |-> <<>>,
     alias |-> NoId, loading |-> FALSE, error |-> Null, unreadCount |-> 0]

\* The content of the array held by the state messages.
messagesOf(h, st) ==
    IF h.alias # NoId THEN GetOrEmpty(st.messages, h.alias) ELSE h.messages

\* setMessages(array of the hook's own)
setMessages(h, msgs) == [h EXCEPT !.messages = msgs, !.alias = NoId]

\* The hook after the service went from st by a call for userId at time
\* now: this.messages.set(id, []) of a new conversation puts another array
\* in the place of the one the state holds, which keeps its content.
AfterServiceCall(h, st, userId, now) ==
    IF /\ h.alias # NoId
       /\ h.alias = now
       /\ findConversationWithUser(st.conversations, userId) = NoId
    THEN setMessages(h, messagesOf(h, st))
    ELSE h

\* conv is put behind the entries that are not older than it.
InsertByLastActivity(sorted, conv) ==
    LET n == Cardinality({ k \in DOMAIN sorted :
                             sorted[k].lastActivity >= conv.lastActivity })
    IN  SubSeq(sorted, 1, n) \o << conv >> \o SubSeq(sorted, n + 1, Len(sorted))

RECURSIVE SortByLastActivity(_, _)
\* Array.prototype.sort by lastActivity, newest first; the sort is stable.
SortByLastActivity(convs, k) ==
    IF k = 0 THEN <<>>
    ELSE InsertByLastActivity(SortByLastActivity(convs, k - 1), convs[k])

\* What getConversations resolves with, from the store at that time.
getConversations(st) ==
    SortByLastActivity(
        [k \in DOMAIN st.conversations |->
           LET conv == st.conversations[k]
               others == { n \in DOMAIN conv.participants :
                             conv.participants[n] # CurrentUser }
               otherUserId == IF others = {} THEN ""
                              ELSE conv.participants[Min(others)]
           IN  [id |-> conv.id, participants |-> conv.participants,
                lastActivity |-> conv.lastActivity,
                unreadCount |-> conv.unreadCount,
                lastMessage |-> conv.lastMessage,
                otherUser |-> IF otherUserId \in {"user_2", "user_3"}
                              THEN otherUserId ELSE "user_2"]],
        Len(st.conversations))

\* loadConversations up to its await.
loadConversationsStarts(h) == [h EXCEPT !.loading = TRUE, !.error = Null]

\* The listener given to messagingService.onNewMessage, loadConversations()
\* apart: the updater of setMessages and updateUnreadCount.
onNewMessage(h, st, message) ==
    LET prev == messagesOf(h, st)
        isCurrentConversation ==
            /\ Len(prev) > 0
            /\ prev[1].conversationId = message.conversationId
        h1 == IF isCurrentConversation
              THEN setMessages(h, Append(prev, message))
              ELSE h
    IN  [h1 EXCEPT !.unreadCount = getUnreadCount(st)]

\* setMessages(prev => [...prev, message]) of the hook's sendMessage.
appendSent(h, st, message) == setMessages(h, Append(messagesOf(h, st), message))

----------------------------------------------------------------------------
(* The follow list of the community service                                *)
(* (src/src/services/communityService.ts).  follow_1..follow_3 and         *)
(* notif_1..notif_3 of the mock data are 1..3, `follow_${Date.now()}` and  *)
(* `notif_${Date.now()}` are the value of the clock.                       *)

\* How many followUser calls go through.
MaxFollows == 2

UserFollow(id, followerId, followingId) ==
    [id |-> id, followerId |-> followerId, followingId |-> followingId]

Notification(id, userId, type, read) ==
    [id |-> id, userId |-> userId, type |-> type, read |-> read]

\* this.follows after initializeMockData.
mockFollows ==
    [u \in {CurrentUser, "user_2"} |->
       IF u = CurrentUser
       THEN << UserFollow(1, CurrentUser, "user_2"),
               UserFollow(2, CurrentUser, "user_3") >>
       ELSE << UserFollow(3, "user_2", CurrentUser) >>]

\* this.notifications after initializeMockData.
mockNotifications ==
    [u \in {CurrentUser} |->
       << Notification(1, CurrentUser, "follow", FALSE),
          Notification(2, CurrentUser, "new-recommendation", FALSE),
          Notification(3, CurrentUser, "new-review", TRUE) >>]

\* createNotification: the new notification goes to the front of the list
\* of its user.
createNotification(ns, userId, type, now) ==
    LET newNotification == Notification(now, userId, type, FALSE)
        userNotifications == GetOrEmpty(ns, userId)
    IN  SetMessages(ns, userId, << newNotification >> \o userNotifications)

\* userFollows.find(f => f.followingId === followingId) finds an entry.
Follows(userFollows, followingId) ==
    \E k \in DOMAIN userFollows : userFollows[k].followingId = followingId

\* Faulty variant of followUser: the follow is added without looking for an
\* existing one.
followUserUnchecked(fs, ns, followingId, now) ==
    LET userFollows == GetOrEmpty(fs, CurrentUser)
        newFollow == UserFollow(now, CurrentUser, followingId)
    IN  [follows |-> SetMessages(fs, CurrentUser,
                                 Append(userFollows, newFollow)),
         notifications |-> createNotification(ns, followingId, "follow", now),
         thrown |-> FALSE]

\* followUser up to its timer: the two maps afterwards and whether the call
\* throws.
followUser(fs, ns, followingId, now) ==
    LET userFollows == GetOrEmpty(fs, CurrentUser)
        newFollow == UserFollow(now, CurrentUser, followingId)
    IN  IF Follows(userFollows, followingId)
        THEN [follows |-> fs, notifications |-> ns, thrown |-> TRUE]
        ELSE [follows |-> SetMessages(fs, CurrentUser,
                                      Append(userFollows, newFollow)),
              notifications |->
                 createNotification(ns, followingId, "follow", now),
              thrown |-> FALSE]

\* userFollows.filter(f => f.followingId !== followingId)
WithoutFollowing(userFollows, followingId) ==
    SelectSeq(userFollows, LAMBDA f : f.followingId # followingId)

\* unfollowUser up to its timer.
unfollowUser(fs, followingId) ==
    SetMessages(fs, CurrentUser,
                WithoutFollowing(GetOrEmpty(fs, CurrentUser), followingId))

isFollowing(fs, userId) == Follows(GetOrEmpty(fs, CurrentUser), userId)

\* No followUser or unfollowUser call has been made.
NoFollowCall == [call |-> "none"]

----------------------------------------------------------------------------
(* The MapWithClustering component *)

mapRef == IF mapReady THEN map ELSE NoMap

\* useEffect(..., [locations, clusterDistance]) after the props became
\* (locs, d): sets clusters and records the call it made.  When the call
\* throws, setClusters is not reached and the error leaves the effect; the
\* ErrorBoundary around the page then unmounts the component.
Effect(locs, d) ==
    IF mapReady /\ Len(locs) > 0
    THEN LET call == Call(locs, map, d)
         IN  /\ clusters' = IF call.thrown THEN clusters ELSE call.result
             /\ mounted' = ~call.thrown
             /\ pass' = call
    ELSE /\ clusters' = locs
         /\ mounted' = mounted
         /\ pass' = NoPass

Init ==
    /\ locations = <<>>
    /\ clusterDistance = DefaultClusterDistance
    /\ map = [zoom |-> DefaultZoom, center |-> DefaultCenter]
    /\ mapReady = FALSE
    /\ mounted = TRUE
    /\ clusters = <<>>
    /\ pass = NoPass
    /\ auth = initialState
    /\ authCall = "checkExistingSession"
    /\ routeLocation = Location(ROUTES.HOME, "", NoState)
    /\ rendered = Render(auth, routeLocation)
    /\ helpfulVotes = 0
    /\ reviewVotes = FALSE
    /\ card = [mounted |-> FALSE, instance |-> 0, isVoting |-> FALSE,
               hasVoted |-> FALSE]
    /\ votesInFlight = {}
    /\ runs = [s \in Slots |-> IdleRun]
    /\ service = [token |-> Null, auth_token |-> Null, user_data |-> Null]
    /\ pending = {}
    /\ accounts = [e \in Emails |-> "none"]
    /\ lastLogin = NoLogin
    /\ clock = FirstNow
    /\ store = initializeMockData
    /\ lastReturn = NoReturn
    /\ sendsMade = 0
    /\ hook = initialHook
    /\ hookCalls = EmptyBag
    /\ follows = mockFollows
    /\ notifications = mockNotifications
    /\ lastFollow = NoFollowCall

\* The parent hands over a list with one more location.
AddLocation ==
    /\ mounted
    /\ Len(locations) < MaxPoints
    /\ \E l \in Catalogue : locations' = Append(locations, l)
    /\ Effect(locations', clusterDistance)
    /\ UNCHANGED <<clusterDistance, map, mapReady>>
    /\ UNCHANGED <<routeVars, voteVars, runVars, authVars, msgVars, hookVars,
                 followVars>>

\* The parent hands over a list without its first location.
DropLocation ==
    /\ mounted
    /\ Len(locations) > 0
    /\ locations' = Tail(locations)
    /\ Effect(locations', clusterDistance)
    /\ UNCHANGED <<clusterDistance, map, mapReady>>
    /\ UNCHANGED <<routeVars, voteVars, runVars, authVars, msgVars, hookVars,
                 followVars>>

\* The parent changes the clusterDistance prop.
SetClusterDistance ==
    /\ mounted
    /\ \E d \in Thresholds \ {clusterDistance} : clusterDistance' = d
    /\ Effect(locations, clusterDistance')
    /\ UNCHANGED <<locations, map, mapReady>>
    /\ UNCHANGED <<routeVars, voteVars, runVars, authVars, msgVars, hookVars,
                 followVars>>

\* MapContainer's whenReady callback.
WhenReady ==
    /\ mounted
    /\ ~mapReady
    /\ mapReady' = TRUE
    /\ IF Len(locations) > 0
       THEN LET call == Call(locations, map, clusterDistance)
            IN  /\ clusters' = IF call.thrown THEN clusters
                                              ELSE call.result
                /\ mounted' = ~call.thrown
                /\ pass' = call
       ELSE /\ clusters' = clusters
            /\ mounted' = mounted
            /\ pass' = NoPass
    /\ UNCHANGED <<locations, clusterDistance, map>>
    /\ UNCHANGED <<routeVars, voteVars, runVars, authVars, msgVars, hookVars,
                 followVars>>

\* The user zooms the Leaflet map; no effect depends on the viewport.
MoveMap ==
    /\ mounted
    /\ mapReady
    /\ \E v \in Views \ {map} : map' = v
    /\ pass' = NoPass
    /\ UNCHANGED <<locations, clusterDistance, mapReady, mounted, clusters>>
    /\ UNCHANGED <<routeVars, voteVars, runVars, authVars, msgVars, hookVars,
                 followVars>>

\* createClusters applied to the current arguments.
Pass ==
    /\ pass' = Call(locations, mapRef, clusterDistance)
    /\ pass' # pass
    /\ UNCHANGED <<locations, clusterDistance, map, mapReady, mounted,
                   clusters>>
    /\ UNCHANGED <<routeVars, voteVars, runVars, authVars, msgVars, hookVars,
                 followVars>>

Next ==
    \/ AddLocation
    \/ DropLocation
    \/ SetClusterDistance
    \/ WhenReady
    \/ MoveMap
    \/ Pass

Spec == Init /\ [][Next]_vars

----------------------------------------------------------------------------
(* Authentication and routing as a state machine *)

\* dispatch(action), followed by the render it causes.
Dispatch(action) ==
    /\ auth' = authReducer(auth, action)
    /\ rendered' = Render(auth', routeLocation)
    /\ UNCHANGED routeLocation

\* navigate(to, { state }), followed by the render it causes.
NavigateTo(pathname, search, state) ==
    /\ routeLocation' = Location(pathname, search, state)
    /\ rendered' = Render(auth, routeLocation')
    /\ UNCHANGED auth

\* AuthProvider's effect on mount: checkExistingSession.
CheckExistingSession ==
    /\ authCall = "checkExistingSession"
    /\ authCall' = "none"
    /\ \/ \E u \in Users : Dispatch([type |-> "AUTH_SUCCESS", payload |-> u])
       \/ Dispatch([type |-> "AUTH_LOGOUT"])
       \/ Dispatch([type |-> "AUTH_ERROR",
                    payload |-> "Session validation failed"])
    /\ UNCHANGED <<mapVars, voteVars, runVars, authVars, msgVars, hookVars,
                 followVars>>

\* login / register up to the await: the form of the login page calls it.
LoginStart ==
    /\ authCall = "none"
    /\ rendered.kind = "children"
    /\ routeLocation.pathname \in {ROUTES.LOGIN, ROUTES.REGISTER}
    /\ authCall' = "login"
    /\ Dispatch([type |-> "AUTH_START"])
    /\ UNCHANGED <<mapVars, voteVars, runVars, authVars, msgVars, hookVars,
                 followVars>>

\* login / register after the await: the service answered or failed.
LoginSettle ==
    /\ authCall = "login"
    /\ authCall' = "none"
    /\ \/ \E u \in Users : Dispatch([type |-> "AUTH_SUCCESS", payload |-> u])
       \/ Dispatch([type |-> "AUTH_ERROR", payload |-> "Login failed"])
    /\ UNCHANGED <<mapVars, voteVars, runVars, authVars, msgVars, hookVars,
                 followVars>>

\* logout: AUTH_LOGOUT is dispatched whether or not the service call fails.
Logout ==
    /\ authCall = "none"
    /\ auth.isAuthenticated
    /\ Dispatch([type |-> "AUTH_LOGOUT"])
    /\ UNCHANGED <<authCall, mapVars, voteVars, runVars, authVars, msgVars, hookVars,
                 followVars>>

ClearError ==
    /\ auth.error # NoError
    /\ Dispatch([type |-> "CLEAR_ERROR"])
    /\ UNCHANGED <<authCall, mapVars, voteVars, runVars, authVars, msgVars, hookVars,
                 followVars>>

\* The user opens a URL or follows a link.
Visit ==
    /\ \E p \in Paths, q \in Searches :
          /\ Location(p, q, NoState) # routeLocation
          /\ NavigateTo(p, q, NoState)
    /\ UNCHANGED <<authCall, mapVars, voteVars, runVars, authVars, msgVars, hookVars,
                 followVars>>

\* The effect of a rendered <Navigate>: the router goes where it points.
FollowNavigate ==
    /\ rendered.kind = "Navigate"
    /\ NavigateTo(rendered.to.pathname, rendered.to.search, rendered.state)
    /\ UNCHANGED <<authCall, mapVars, voteVars, runVars, authVars, msgVars, hookVars,
                 followVars>>

\* Login page, handleModeChange: navigate(LOGIN or REGISTER, {replace}).
HandleModeChange ==
    /\ rendered.kind = "children"
    /\ routeLocation.pathname \in {ROUTES.LOGIN, ROUTES.REGISTER}
    /\ \E p \in {ROUTES.LOGIN, ROUTES.REGISTER} :
          /\ Location(p, "", NoState) # routeLocation
          /\ NavigateTo(p, "", NoState)
    /\ UNCHANGED <<authCall, mapVars, voteVars, runVars, authVars, msgVars, hookVars,
                 followVars>>

NextRoute ==
    \/ CheckExistingSession
    \/ LoginStart
    \/ LoginSettle
    \/ Logout
    \/ ClearError
    \/ Visit
    \/ FollowNavigate
    \/ HandleModeChange

SpecRoute == Init /\ [][NextRoute]_vars

----------------------------------------------------------------------------
(* Helpful voting as a state machine *)

\* The card is mounted: fresh state, then the effect
\* setHasVoted(reviewService.hasUserVoted(review.id)).
Mount ==
    /\ ~card.mounted
    /\ card.instance < MaxMounts
    /\ card' = [NewCard(card.instance + 1) EXCEPT !.hasVoted = hasUserVoted]
    /\ UNCHANGED <<helpfulVotes, reviewVotes, votesInFlight>>
    /\ UNCHANGED <<mapVars, routeVars, runVars, authVars, msgVars, hookVars,
                 followVars>>

\* The card leaves the page; a vote in flight is not cancelled.
Unmount ==
    /\ card.mounted
    /\ card' = [card EXCEPT !.mounted = FALSE]
    /\ UNCHANGED <<helpfulVotes, reviewVotes, votesInFlight>>
    /\ UNCHANGED <<mapVars, routeVars, runVars, authVars, msgVars, hookVars,
                 followVars>>

\* handleHelpfulVote(true) up to the await inside voteHelpful.
HandleHelpfulVote ==
    /\ card.mounted
    /\ ~(card.isVoting \/ card.hasVoted)
    /\ card' = [card EXCEPT !.isVoting = TRUE]
    /\ votesInFlight' = votesInFlight \cup {card.instance}
    /\ UNCHANGED <<helpfulVotes, reviewVotes>>
    /\ UNCHANGED <<mapVars, routeVars, runVars, authVars, msgVars, hookVars,
                 followVars>>

\* The 300 ms timer of a voteHelpful call fires: the stored count is
\* raised, then handleHelpfulVote goes on with recordUserVote,
\* setHasVoted(true) and setIsVoting(false); the setters reach only the
\* instance that made the call, and only while it is mounted.
VoteHelpfulSettles ==
    \E instance \in votesInFlight :
        /\ votesInFlight' = votesInFlight \ {instance}
        /\ helpfulVotes' = helpfulVotes + 1
        /\ reviewVotes' = TRUE
        /\ card' = IF card.mounted /\ card.instance = instance
                   THEN [card EXCEPT !.hasVoted = TRUE, !.isVoting = FALSE]
                   ELSE card
        /\ UNCHANGED <<mapVars, routeVars, runVars, authVars, msgVars, hookVars,
                 followVars>>

NextVote ==
    \/ Mount
    \/ Unmount
    \/ HandleHelpfulVote
    \/ VoteHelpfulSettles

SpecVote == Init /\ [][NextVote]_vars

----------------------------------------------------------------------------
(* createClusters calls as state machines *)

\* View s enters createClusters(locs, m, default distance): the
\* early return, or the locals before the outer forEach.  given keeps the
\* arguments as they were handed over, earlier the ids that the view's
\* previous call had processed.
Enter(s, locs, m, overlapped) ==
    LET d == DefaultClusterDistance
        entered == [IdleRun EXCEPT
                      !.locations = locs, !.map = m, !.clusterDistance = d,
                      !.given = [locations |-> locs, map |-> m,
                                 clusterDistance |-> d],
                      !.earlier = runs[s].processed,
                      !.overlapped = overlapped]
    IN  IF m = NoMap \/ Len(locs) = 0
        THEN [entered EXCEPT !.pc = "done", !.result = EarlyReturn(locs, m)]
        ELSE [entered EXCEPT !.pc = "outer", !.i = 1,
                             !.processed = NewProcessed(runs[s])]

\* The first view calls createClusters again after its call has ended,
\* with the map at one of the two zoom levels.
StartPass ==
    /\ ~Running(runs[1])
    /\ \E locs \in PassLists, m \in Range(SplitViews) :
          runs' = [runs EXCEPT ![1] = Enter(1, locs, m, FALSE)]
    /\ UNCHANGED <<mapVars, routeVars, voteVars, authVars, msgVars, hookVars,
                 followVars>>

\* A view calls createClusters for the first time, whatever the other
\* view's call is doing; calls in progress at that moment are overlapped.
StartReentrant(s) ==
    /\ runs[s].pc = "idle"
    /\ \E locs \in RunLists :
          LET mine == Enter(s, locs, SplitViews[s],
                            \E t \in Slots \ {s} : Running(runs[t]))
          IN  runs' = [t \in Slots |->
                         IF t = s THEN mine
                         ELSE IF Running(runs[t]) /\ Running(mine)
                         THEN [runs[t] EXCEPT !.overlapped = TRUE]
                         ELSE runs[t]]
    /\ UNCHANGED <<mapVars, routeVars, voteVars, authVars, msgVars, hookVars,
                 followVars>>

\* The call ends with the exception of the projection.
Thrown(run) == [run EXCEPT !.pc = "done", !.result = NoResult]

\* One round of the outer forEach, up to the inner forEach.
OuterStep(s) ==
    LET run == runs[s]
        location == run.locations[run.i]
    IN  /\ run.pc = "outer"
        /\ run.i <= Len(run.locations)
        /\ runs' = [runs EXCEPT ![s] =
             IF location.id \in Processed(runs, s)
             THEN [run EXCEPT !.i = @ + 1]
             ELSE IF InvalidLatLng(location.latitude, location.longitude)
             THEN Thrown(run)
             ELSE [run EXCEPT
                     !.pc = "inner", !.j = 1,
                     !.locationPoint = latLngToContainerPoint(
                         run.map, location.latitude, location.longitude),
                     !.nearbyLocations = <<location>>,
                     !.processed = MarkProcessed(@, location.id)]]
        /\ UNCHANGED <<mapVars, routeVars, voteVars, authVars, msgVars, hookVars,
                 followVars>>

\* One round of the inner forEach; after its last round the group is
\* pushed as a cluster if it has more than one member, and the outer
\* forEach goes on.
InnerStep(s) ==
    LET run == runs[s]
        otherLocation == run.locations[run.j]
    IN  /\ run.pc = "inner"
        /\ runs' = [runs EXCEPT ![s] =
             IF run.j > Len(run.locations)
             THEN [run EXCEPT
                     !.pc = "outer", !.i = @ + 1, !.j = 0,
                     !.locationPoint = <<0, 0>>, !.nearbyLocations = <<>>,
                     !.clusters = IF IsClusterSize(run.nearbyLocations)
                                  THEN Append(@,
                                         ClusterGroup(run.nearbyLocations))
                                  ELSE @]
             ELSE IF otherLocation.id \in Processed(runs, s)
             THEN [run EXCEPT !.j = @ + 1]
             ELSE IF InvalidLatLng(otherLocation.latitude,
                                   otherLocation.longitude)
             THEN Thrown(run)
             ELSE IF WithinClusterDistance(
                        run.locationPoint,
                        latLngToContainerPoint(run.map,
                            otherLocation.latitude, otherLocation.longitude),
                        run.clusterDistance)
             THEN [run EXCEPT
                     !.j = @ + 1,
                     !.nearbyLocations = Push(@, otherLocation),
                     !.processed = MarkProcessed(@, otherLocation.id)]
             ELSE [run EXCEPT !.j = @ + 1]]
        /\ UNCHANGED <<mapVars, routeVars, voteVars, authVars, msgVars, hookVars,
                 followVars>>

\* return [...clusters, ...individualLocations] after the outer forEach.
Return(s) ==
    LET run == runs[s]
    IN  /\ run.pc = "outer"
        /\ run.i > Len(run.locations)
        /\ runs' = [runs EXCEPT ![s] =
             [run EXCEPT
                !.pc = "done", !.i = 0,
                !.result = run.clusters \o
                           SelectSeq(run.locations,
                               LAMBDA l : l.id \notin Processed(runs, s))]]
        /\ UNCHANGED <<mapVars, routeVars, voteVars, authVars, msgVars, hookVars,
                 followVars>>

\* Calls one after the other, as the single thread of the page runs them.
NextPasses ==
    \/ StartPass
    \/ OuterStep(1)
    \/ InnerStep(1)
    \/ Return(1)

SpecPasses == Init /\ [][NextPasses]_vars

\* The calls of the two views interleaved statement by statement.
NextReentrant ==
    \E s \in Slots :
        \/ StartReentrant(s)
        \/ OuterStep(s)
        \/ InnerStep(s)
        \/ Return(s)

SpecReentrant == Init /\ [][NextReentrant]_vars

----------------------------------------------------------------------------
(* The AuthProvider over the authentication service as a state machine *)

\* dispatch of one action after the other, followed by the render.
DispatchAll(actions) ==
    /\ auth' = IF Len(actions) = 2
               THEN authReducer(authReducer(auth, actions[1]), actions[2])
               ELSE authReducer(auth, actions[1])
    /\ rendered' = Render(auth', routeLocation)
    /\ UNCHANGED routeLocation

\* AuthProvider's effect on mount, reading the service.
CheckStoredSession ==
    /\ authCall = "checkExistingSession"
    /\ authCall' = "none"
    /\ IF isAuthenticated(service) /\ getCurrentUser(service) # Null
       THEN DispatchAll(<<[type |-> "AUTH_SUCCESS",
                           payload |-> getCurrentUser(service)]>>)
       ELSE DispatchAll(<<[type |-> "AUTH_LOGOUT"]>>)
    /\ UNCHANGED <<authVars, mapVars, voteVars, runVars, msgVars, hookVars,
                 followVars>>

\* register(data) up to the timer inside authService.register.
RegisterStart ==
    /\ authCall = "none"
    /\ Cardinality(pending) < MaxPending
    /\ \E e \in Emails :
          pending' = pending \cup {[kind |-> "register", email |-> e]}
    /\ pending' # pending
    /\ DispatchAll(<<[type |-> "AUTH_START"]>>)
    /\ UNCHANGED <<service, accounts, lastLogin, authCall>>
    /\ UNCHANGED <<mapVars, voteVars, runVars, msgVars, hookVars,
                 followVars>>

\* The timer of a register call fires: token and user are stored,
\* AUTH_SUCCESS is dispatched.
RegisterSettle ==
    /\ \E call \in pending :
          /\ call.kind = "register"
          /\ pending' = pending \ {call}
          /\ service' = [token |-> MockToken, auth_token |-> MockToken,
                         user_data |-> call.email]
          /\ accounts' = [accounts EXCEPT ![call.email] = "registered"]
          /\ DispatchAll(<<[type |-> "AUTH_SUCCESS",
                            payload |-> call.email]>>)
    /\ UNCHANGED <<lastLogin, authCall>>
    /\ UNCHANGED <<mapVars, voteVars, runVars, msgVars, hookVars,
                 followVars>>

\* login(credentials) up to the timer inside authService.login, or, when
\* no user with that email is stored, through the rejection to AUTH_ERROR.
LoginCall ==
    /\ authCall = "none"
    /\ Cardinality(pending) < MaxPending
    /\ \E e \in Emails :
          LET storedUserData == service.user_data
              accepted == storedUserData # Null /\ storedUserData = e
          IN  /\ lastLogin' = [email |-> e, after |-> accounts[e],
                               accepted |-> accepted]
              /\ IF accepted
                 THEN /\ pending' = pending \cup
                                    {[kind |-> "login", email |-> e]}
                      /\ DispatchAll(<<[type |-> "AUTH_START"]>>)
                 ELSE /\ pending' = pending
                      /\ DispatchAll(<<[type |-> "AUTH_START"],
                                       [type |-> "AUTH_ERROR",
                                        payload |-> UNAUTHORIZED]>>)
    /\ UNCHANGED <<service, accounts, authCall>>
    /\ UNCHANGED <<mapVars, voteVars, runVars, msgVars, hookVars,
                 followVars>>

\* The timer of a login call fires: the token is stored, AUTH_SUCCESS is
\* dispatched with the user read before the timer.
LoginResolve ==
    /\ \E call \in pending :
          /\ call.kind = "login"
          /\ pending' = pending \ {call}
          /\ service' = [service EXCEPT !.token = MockToken,
                                        !.auth_token = MockToken]
          /\ DispatchAll(<<[type |-> "AUTH_SUCCESS",
                            payload |-> call.email]>>)
    /\ UNCHANGED <<accounts, lastLogin, authCall>>
    /\ UNCHANGED <<mapVars, voteVars, runVars, msgVars, hookVars,
                 followVars>>

\* logout() up to the timer inside authService.logout: token and user are
\* removed at once.
LogoutCall ==
    /\ authCall = "none"
    /\ Cardinality(pending) < MaxPending
    /\ pending' = pending \cup {[kind |-> "logout", email |-> Null]}
    /\ pending' # pending
    /\ service' = [token |-> Null, auth_token |-> Null, user_data |-> Null]
    /\ accounts' = [e \in Emails |->
                      IF e = service.user_data /\ accounts[e] = "registered"
                      THEN "loggedOut" ELSE accounts[e]]
    /\ UNCHANGED <<auth, authCall, routeLocation, rendered, lastLogin>>
    /\ UNCHANGED <<mapVars, voteVars, runVars, msgVars, hookVars,
                 followVars>>

\* The timer of a logout call fires: AUTH_LOGOUT is dispatched.
LogoutSettle ==
    /\ \E call \in pending :
          /\ call.kind = "logout"
          /\ pending' = pending \ {call}
    /\ DispatchAll(<<[type |-> "AUTH_LOGOUT"]>>)
    /\ UNCHANGED <<service, accounts, lastLogin, authCall>>
    /\ UNCHANGED <<mapVars, voteVars, runVars, msgVars, hookVars,
                 followVars>>

\* The page is loaded again: calls in flight are gone, the service is
\* constructed with the token of localStorage, the provider starts anew.
Reload ==
    /\ authCall = "none"
    /\ authCall' = "checkExistingSession"
    /\ pending' = {}
    /\ service' = [service EXCEPT !.token = service.auth_token]
    /\ auth' = initialState
    /\ rendered' = Render(auth', routeLocation)
    /\ UNCHANGED <<routeLocation, accounts, lastLogin>>
    /\ UNCHANGED <<mapVars, voteVars, runVars, msgVars, hookVars,
                 followVars>>

NextAuth ==
    \/ CheckStoredSession
    \/ RegisterStart
    \/ RegisterSettle
    \/ LoginCall
    \/ LoginResolve
    \/ LogoutCall
    \/ LogoutSettle
    \/ Reload

SpecAuth == Init /\ [][NextAuth]_vars

----------------------------------------------------------------------------
(* The auth reducer under every order of its actions *)

\* The messages the provider dispatches with AUTH_ERROR.
ErrorMessages == {"Session validation failed", "Login failed"}

AuthStart ==
    /\ Dispatch([type |-> "AUTH_START"])
    /\ UNCHANGED <<authCall, mapVars, voteVars, runVars, authVars, msgVars, hookVars,
                 followVars>>

AuthSuccess ==
    /\ \E u \in Users : Dispatch([type |-> "AUTH_SUCCESS", payload |-> u])
    /\ UNCHANGED <<authCall, mapVars, voteVars, runVars, authVars, msgVars, hookVars,
                 followVars>>

AuthError ==
    /\ \E e \in ErrorMessages :
          Dispatch([type |-> "AUTH_ERROR", payload |-> e])
    /\ UNCHANGED <<authCall, mapVars, voteVars, runVars, authVars, msgVars, hookVars,
                 followVars>>

AuthLogout ==
    /\ Dispatch([type |-> "AUTH_LOGOUT"])
    /\ UNCHANGED <<authCall, mapVars, voteVars, runVars, authVars, msgVars, hookVars,
                 followVars>>

AuthClearError ==
    /\ Dispatch([type |-> "CLEAR_ERROR"])
    /\ UNCHANGED <<authCall, mapVars, voteVars, runVars, authVars, msgVars, hookVars,
                 followVars>>

NextReducer ==
    \/ AuthStart
    \/ AuthSuccess
    \/ AuthError
    \/ AuthLogout
    \/ AuthClearError
    \/ Visit
    \/ FollowNavigate

SpecReducer == Init /\ [][NextReducer]_vars

----------------------------------------------------------------------------
(* Calls of the messaging service as a state machine *)

\* A millisecond passes.
Tick ==
    /\ clock < FirstNow + MaxTicks
    /\ clock' = clock + 1
    /\ UNCHANGED <<store, lastReturn, sendsMade>>
    /\ UNCHANGED <<mapVars, routeVars, voteVars, runVars, authVars, hookVars,
                 followVars>>

\* messagingService.sendMessage({receiverId, content}) to another user.
SendMessage ==
    /\ sendsMade < MaxSends
    /\ sendsMade' = sendsMade + 1
    /\ \E receiverId \in OtherUsers :
          LET sending == sendMessage(store, receiverId, sendsMade + 1, clock)
          IN  /\ store' = sending.store
              /\ lastReturn' = [call |-> "sendMessage", userId |-> receiverId,
                                before |-> store,
                                message |-> sending.newMessage]
    /\ UNCHANGED clock
    /\ UNCHANGED <<mapVars, routeVars, voteVars, runVars, authVars, hookVars,
                 followVars>>

\* messagingService.startConversation(userId) with another user.
StartConversation ==
    /\ \E userId \in OtherUsers :
          LET starting == startConversation(store, userId, clock)
          IN  /\ store' = starting.store
              /\ lastReturn' = [call |-> "startConversation",
                                userId |-> userId, before |-> store,
                                conversationId |-> starting.conversationId]
    /\ UNCHANGED <<clock, sendsMade>>
    /\ UNCHANGED <<mapVars, routeVars, voteVars, runVars, authVars, hookVars,
                 followVars>>

\* messagingService.markAsRead(conversationId)
MarkAsRead ==
    /\ \E k \in DOMAIN store.conversations :
          LET conversationId == store.conversations[k].id
          IN  /\ store' = markAsRead(store, conversationId)
              /\ lastReturn' = [call |-> "markAsRead", before |-> store,
                                conversationId |-> conversationId]
    /\ UNCHANGED <<clock, sendsMade>>
    /\ UNCHANGED <<mapVars, routeVars, voteVars, runVars, authVars, hookVars,
                 followVars>>

NextMessaging ==
    \/ Tick
    \/ SendMessage
    \/ StartConversation
    \/ MarkAsRead

SpecMessaging == Init /\ [][NextMessaging]_vars

----------------------------------------------------------------------------
(* One useMessaging instance over the messaging service.  Every service    *)
(* call of the hook runs up to its timer when it is made and waits in      *)
(* hookCalls; the timers are taken in any order.                           *)

Waiting(call) == BagIn(call, hookCalls)

GetConversationsCall == [op |-> "getConversations"]

\* The user may start another call.
MayCall == hook.mounted /\ BagCardinality(hookCalls) < MaxCalls

\* First render of a component that uses the hook: the listener is
\* subscribed and the effect on mount calls loadConversations.
UseMessaging ==
    /\ ~hook.mounted
    /\ hook' = [loadConversationsStarts(hook) EXCEPT !.mounted = TRUE]
    /\ hookCalls' = hookCalls (+) SetToBag({GetConversationsCall})
    /\ UNCHANGED <<msgVars, mapVars, routeVars, voteVars, runVars, authVars,
                   followVars>>

\* loadConversations() called by the component.
LoadConversations ==
    /\ MayCall
    /\ hook' = loadConversationsStarts(hook)
    /\ hookCalls' = hookCalls (+) SetToBag({GetConversationsCall})
    /\ UNCHANGED <<msgVars, mapVars, routeVars, voteVars, runVars, authVars,
                   followVars>>

\* The timer of getConversations fires: the rest of loadConversations.
GetConversationsSettles ==
    /\ Waiting(GetConversationsCall)
    /\ hook' = [hook EXCEPT !.conversations = getConversations(store),
                            !.unreadCount = getUnreadCount(store),
                            !.loading = FALSE]
    /\ hookCalls' = hookCalls (-) SetToBag({GetConversationsCall})
    /\ UNCHANGED <<msgVars, mapVars, routeVars, voteVars, runVars, authVars,
                   followVars>>

\* loadMessages(conversationId) called by the component.
LoadMessages ==
    /\ MayCall
    /\ \E k \in DOMAIN store.conversations :
          hookCalls' = hookCalls (+)
              SetToBag({[op |-> "getMessages",
                         conversationId |-> store.conversations[k].id]})
    /\ hook' = [hook EXCEPT !.error = Null]
    /\ UNCHANGED <<msgVars, mapVars, routeVars, voteVars, runVars, authVars,
                   followVars>>

\* The timer of getMessages fires: the array of the conversation becomes
\* the state, and markAsRead runs up to its timer.
GetMessagesSettles ==
    /\ \E call \in BagToSet(hookCalls) :
          /\ call.op = "getMessages"
          /\ hook' = IF call.conversationId \in DOMAIN store.messages
                     THEN [hook EXCEPT !.messages = <<>>,
                                       !.alias = call.conversationId]
                     ELSE setMessages(hook, <<>>)
          /\ store' = markAsRead(store, call.conversationId)
          /\ hookCalls' = (hookCalls (-) SetToBag({call})) (+)
                SetToBag({[op |-> "markAsRead",
                           conversationId |-> call.conversationId]})
    /\ UNCHANGED <<clock, lastReturn, sendsMade>>
    /\ UNCHANGED <<mapVars, routeVars, voteVars, runVars, authVars,
                   followVars>>

\* The timer of markAsRead fires: the rest of loadMessages.
MarkAsReadSettles ==
    /\ \E call \in BagToSet(hookCalls) :
          /\ call.op = "markAsRead"
          /\ hook' = [hook EXCEPT
                        !.unreadCount = getUnreadCount(store),
                        !.conversations =
                           [k \in DOMAIN hook.conversations |->
                              IF hook.conversations[k].id = call.conversationId
                              THEN [hook.conversations[k] EXCEPT
                                      !.unreadCount = 0]
                              ELSE hook.conversations[k]]]
          /\ hookCalls' = hookCalls (-) SetToBag({call})
    /\ UNCHANGED <<msgVars, mapVars, routeVars, voteVars, runVars, authVars,
                   followVars>>

\* sendMessage({receiverId, content}) of the hook, up to the timer of the
\* service.
HookSendMessage ==
    /\ hook.mounted
    /\ sendsMade < MaxSends
    /\ sendsMade' = sendsMade + 1
    /\ \E receiverId \in HookUsers :
          LET sending == sendMessage(store, receiverId, sendsMade + 1, clock)
          IN  /\ store' = sending.store
              /\ hook' = [AfterServiceCall(hook, store, receiverId, clock)
                            EXCEPT !.error = Null]
              /\ hookCalls' = hookCalls (+)
                    SetToBag({[op |-> "sendMessage",
                               message |-> sending.newMessage]})
    /\ UNCHANGED <<clock, lastReturn>>
    /\ UNCHANGED <<mapVars, routeVars, voteVars, runVars, authVars,
                   followVars>>

\* The timer of sendMessage fires: the service calls the listener of the
\* hook, then its promise resolves and the hook's sendMessage goes on up to
\* its await.  The listener and sendMessage each call loadConversations.
SendMessageSettles ==
    /\ \E call \in BagToSet(hookCalls) :
          /\ call.op = "sendMessage"
          /\ LET heard == onNewMessage(loadConversationsStarts(hook), store,
                                       call.message)
                 appended == appendSent(heard, store, call.message)
             IN  hook' = loadConversationsStarts(appended)
          /\ hookCalls' = ((hookCalls (-) SetToBag({call}))
                             (+) SetToBag({GetConversationsCall}))
                             (+) SetToBag({GetConversationsCall})
    /\ UNCHANGED <<msgVars, mapVars, routeVars, voteVars, runVars, authVars,
                   followVars>>

\* startConversation(userId) of the hook, up to the timer of the service.
HookStartConversation ==
    /\ MayCall
    /\ \E userId \in HookUsers :
          /\ store' = startConversation(store, userId, clock).store
          /\ hook' = [AfterServiceCall(hook, store, userId, clock)
                        EXCEPT !.error = Null]
          /\ hookCalls' = hookCalls (+) SetToBag({[op |-> "startConversation"]})
    /\ UNCHANGED <<clock, lastReturn, sendsMade>>
    /\ UNCHANGED <<mapVars, routeVars, voteVars, runVars, authVars,
                   followVars>>

\* The timer of startConversation fires: the hook calls loadConversations.
StartConversationSettles ==
    /\ Waiting([op |-> "startConversation"])
    /\ hook' = loadConversationsStarts(hook)
    /\ hookCalls' = (hookCalls (-) SetToBag({[op |-> "startConversation"]}))
                       (+) SetToBag({GetConversationsCall})
    /\ UNCHANGED <<msgVars, mapVars, routeVars, voteVars, runVars, authVars,
                   followVars>>

\* clearError()
ClearHookError ==
    /\ hook.mounted
    /\ hook' = [hook EXCEPT !.error = Null]
    /\ UNCHANGED <<hookCalls, msgVars, mapVars, routeVars, voteVars, runVars,
                   authVars, followVars>>

NextHook ==
    \/ Tick
    \/ UseMessaging
    \/ LoadConversations
    \/ GetConversationsSettles
    \/ LoadMessages
    \/ GetMessagesSettles
    \/ MarkAsReadSettles
    \/ HookSendMessage
    \/ SendMessageSettles
    \/ HookStartConversation
    \/ StartConversationSettles
    \/ ClearHookError

SpecHook == Init /\ [][NextHook]_vars

----------------------------------------------------------------------------
(* Calls of followUser and unfollowUser as a state machine *)

\* How many follow notifications have been made.
FollowsMade ==
    Cardinality({ <<u, k>> \in UNION { {u} \X DOMAIN notifications[u] :
                                         u \in DOMAIN notifications } :
                    notifications[u][k].id >= FirstNow })

\* communityService.followUser({followingId})
FollowUser ==
    /\ \E followingId \in OtherUsers :
          LET following == followUser(follows, notifications, followingId,
                                      clock)
          IN  /\ following.thrown \/ FollowsMade < MaxFollows
              /\ follows' = following.follows
              /\ notifications' = following.notifications
              /\ lastFollow' = [call |-> "followUser", userId |-> followingId,
                                before |-> [follows |-> follows,
                                            notifications |-> notifications],
                                thrown |-> following.thrown]
    /\ UNCHANGED <<mapVars, routeVars, voteVars, runVars, authVars, msgVars,
                   hookVars>>

\* communityService.unfollowUser(followingId)
UnfollowUser ==
    /\ \E followingId \in OtherUsers :
          /\ follows' = unfollowUser(follows, followingId)
          /\ lastFollow' = [call |-> "unfollowUser", userId |-> followingId,
                            before |-> [follows |-> follows,
                                        notifications |-> notifications],
                            thrown |-> FALSE]
    /\ UNCHANGED notifications
    /\ UNCHANGED <<mapVars, routeVars, voteVars, runVars, authVars, msgVars,
                   hookVars>>

NextCommunity ==
    \/ Tick
    \/ FollowUser
    \/ UnfollowUser

SpecCommunity == Init /\ [][NextCommunity]_vars

----------------------------------------------------------------------------
(* Vocabulary of the properties *)

\* The last step made a createClusters call and the call returned.
Returned == pass.called /\ ~pass.thrown

DistinctIds(locs) ==
    \A i, j \in DOMAIN locs : i # j => locs[i].id # locs[j].id

ContainerPoint(m, l) == latLngToContainerPoint(m, l.latitude, l.longitude)

DistinctPositions(locs, m) ==
    \A i, j \in DOMAIN locs :
        i # j => ContainerPoint(m, locs[i]) # ContainerPoint(m, locs[j])

ClusterItems(result) == { k \in DOMAIN result : IsCluster(result[k]) }

SingletonItems(result) == { k \in DOMAIN result : ~IsCluster(result[k]) }

\* How many times location l occurs in a result, as a singleton item or as
\* a member of a cluster.
Occurrences(result, l) ==
    Cardinality({ k \in SingletonItems(result) : result[k] = l })
    + Cardinality({ <<k, n>> \in (DOMAIN result) \X (1..MaxPoints + 1) :
                      /\ IsCluster(result[k])
                      /\ n \in DOMAIN result[k].locations
                      /\ result[k].locations[n] = l })

\* Every location a result shows.
Shown(result) ==
    { result[k] : k \in SingletonItems(result) }
    \cup UNION { Range(result[k].locations) : k \in ClusterItems(result) }

\* The ids of the groups formed before group k.
EarlierIds(groups, k) ==
    { groups[g][n].id : <<g, n>> \in
        { <<g, n>> \in (1..k - 1) \X (1..MaxPoints + 1) :
             n \in DOMAIN groups[g] } }

----------------------------------------------------------------------------
(* Properties of one clustering pass *)

\* C1: for a non-empty input with distinct ids the result of a pass covers
\* the input exactly: every input location occurs exactly once, as a
\* singleton item or as a cluster member, and nothing else occurs.
C1_CoverageOfInput ==
    (Returned /\ Len(pass.locations) > 0 /\ DistinctIds(pass.locations))
    => /\ \A l \in Range(pass.locations) : Occurrences(pass.result, l) = 1
       /\ Shown(pass.result) = Range(pass.locations)

\* C2: a seed whose group has exactly one member appears in the result as a
\* singleton item.
C2_LoneSeedIsSingleton ==
    Returned
    => \A k \in DOMAIN pass.groups :
          Len(pass.groups[k]) = 1
          => \E n \in SingletonItems(pass.result) :
                pass.result[n] = pass.groups[k][1]

\* C3: every cluster item of a result has at least two members.
C3_ClusterHasTwoMembers ==
    Returned
    => \A k \in ClusterItems(pass.result) :
          Len(pass.result[k].locations) >= 2

C3_Witness ==
    /\ Returned
    /\ ClusterItems(pass.result) # {}
    /\ \E k \in DOMAIN pass.groups : Len(pass.groups[k]) = 1

\* C4: for an input with distinct ids, the group of a seed is the seed plus
\* exactly the locations not taken by an earlier group whose container
\* point lies within clusterDistance of the seed's container point; the
\* distances between the other members play no part.
C4_GroupIsSeedNeighbourhood ==
    (Returned /\ DistinctIds(pass.locations))
    => \A k \in DOMAIN pass.groups :
          LET seed == pass.groups[k][1]
              free == { l \in Range(pass.locations) :
                          l.id \notin EarlierIds(pass.groups, k) }
          IN  /\ seed \in free
              /\ Range(pass.groups[k]) =
                   {seed} \cup
                   { l \in free :
                       WithinClusterDistance(ContainerPoint(pass.map, seed),
                                             ContainerPoint(pass.map, l),
                                             pass.clusterDistance) }

\* The seed-only gap: a location outside the seed's group although it lies
\* within clusterDistance of a member of that group.
C4_Witness ==
    /\ Returned
    /\ DistinctIds(pass.locations)
    /\ \E k \in DOMAIN pass.groups :
         \E q \in Range(pass.locations) :
            /\ Len(pass.groups[k]) > 1
            /\ q.id \notin EarlierIds(pass.groups, k + 1)
            /\ \E n \in 2..Len(pass.groups[k]) :
                 WithinClusterDistance(
                     ContainerPoint(pass.map, pass.groups[k][n]),
                     ContainerPoint(pass.map, q), pass.clusterDistance)

\* C5: the distance test is inclusive.  Two locations exactly
\* clusterDistance apart form one cluster; a location exactly
\* clusterDistance from a seed and not taken earlier joins that seed's
\* group; no member of a group lies farther than clusterDistance from its
\* seed.
C5_BoundaryIsInclusive ==
    (Returned /\ pass.map # NoMap /\ DistinctIds(pass.locations))
    => LET P(l) == ContainerPoint(pass.map, l)
           d == pass.clusterDistance
       IN  /\ (/\ Len(pass.locations) = 2
               /\ d >= 0
               /\ SquaredDistance(P(pass.locations[1]),
                                  P(pass.locations[2])) = d * d)
              => /\ Len(pass.result) = 1
                 /\ IsCluster(pass.result[1])
                 /\ Range(pass.result[1].locations) = Range(pass.locations)
           /\ \A k \in DOMAIN pass.groups :
                /\ \A l \in Range(pass.locations) :
                     (/\ d >= 0
                      /\ l.id \notin EarlierIds(pass.groups, k)
                      /\ SquaredDistance(P(pass.groups[k][1]), P(l)) = d * d)
                     => l \in Range(pass.groups[k])
                /\ \A n \in 2..Len(pass.groups[k]) :
                     /\ d >= 0
                     /\ SquaredDistance(P(pass.groups[k][1]),
                                        P(pass.groups[k][n])) <= d * d

\* Two locations exactly clusterDistance > 0 apart, clustered together.
C5_Witness ==
    /\ Returned
    /\ pass.map # NoMap
    /\ Len(pass.locations) = 2
    /\ DistinctIds(pass.locations)
    /\ pass.clusterDistance > 0
    /\ SquaredDistance(ContainerPoint(pass.map, pass.locations[1]),
                       ContainerPoint(pass.map, pass.locations[2]))
         = pass.clusterDistance * pass.clusterDistance
    /\ Len(pass.result) = 1
    /\ IsCluster(pass.result[1])

\* C6: with clusterDistance 0 and pairwise different container points the
\* result holds only singleton items, exactly one per input location.
C6_ZeroDistanceAllSingletons ==
    (/\ Returned
     /\ pass.map # NoMap
     /\ pass.clusterDistance = 0
     /\ DistinctIds(pass.locations)
     /\ DistinctPositions(pass.locations, pass.map))
    => /\ ClusterItems(pass.result) = {}
       /\ Len(pass.result) = Len(pass.locations)
       /\ \A l \in Range(pass.locations) : Occurrences(pass.result, l) = 1

\* C7 as stated: with clusterDistance 0 no cluster item is emitted, whatever
\* the input.
C7_ZeroDistanceNoCluster ==
    (Returned /\ pass.clusterDistance = 0)
    => ClusterItems(pass.result) = {}

\* C7 as amended: with clusterDistance 0 the members of every emitted
\* cluster share one container point, so no cluster is emitted when the
\* container points of the input are pairwise different.
C7_ZeroDistanceClustersCoincide ==
    (Returned /\ pass.clusterDistance = 0)
    => /\ \A k \in ClusterItems(pass.result) :
            /\ pass.map # NoMap
            /\ \A l \in Range(pass.result[k].locations) :
                  ContainerPoint(pass.map, l) =
                     ContainerPoint(pass.map, pass.result[k].locations[1])
       /\ (pass.map = NoMap \/ DistinctPositions(pass.locations, pass.map))
            => ClusterItems(pass.result) = {}

\* A cluster emitted at clusterDistance 0, next to a location on another
\* spot that stayed out of it.
C7_Witness ==
    /\ Returned
    /\ pass.clusterDistance = 0
    /\ \E k \in ClusterItems(pass.result) :
          \E l \in Range(pass.locations) :
             l \notin Range(pass.result[k].locations)

\* C8: a pass over an empty list returns an empty result.
C8_EmptyInputEmptyResult ==
    (Returned /\ Len(pass.locations) = 0)
    => pass.result = <<>>

C8_Witness ==
    /\ Returned
    /\ Len(pass.locations) = 0
    /\ pass.map # NoMap
    /\ pass.clusterDistance >= 0

\* C9: the bounds of every emitted cluster are the least and greatest
\* latitude and longitude of its members, and its center is the midpoint
\* of those bounds.
C9_CenterIsBoundsMidpoint ==
    Returned
    => \A k \in ClusterItems(pass.result) :
          LET c    == pass.result[k]
              lats == { l.latitude : l \in Range(c.locations) }
              lngs == { l.longitude : l \in Range(c.locations) }
          IN  /\ c.bounds.south \in lats /\ \A v \in lats : c.bounds.south <= v
              /\ c.bounds.north \in lats /\ \A v \in lats : c.bounds.north >= v
              /\ c.bounds.west \in lngs /\ \A v \in lngs : c.bounds.west <= v
              /\ c.bounds.east \in lngs /\ \A v \in lngs : c.bounds.east >= v
              /\ 2 * c.center[1] = c.bounds.south + c.bounds.north
              /\ 2 * c.center[2] = c.bounds.west + c.bounds.east

\* The cluster of (10,10), (20,30) and a third member, whose center
\* (15,20) is not the mean of the three members.
C9_Witness ==
    /\ Returned
    /\ \E k \in ClusterItems(pass.result) :
          LET c == pass.result[k] IN
          /\ Loc("e", 10, 10) \in Range(c.locations)
          /\ Loc("f", 20, 30) \in Range(c.locations)
          /\ Len(c.locations) = 3
          /\ c.center = <<15, 20>>
          /\ \E l \in Range(c.locations) : 3 * 15 # 10 + 20 + l.latitude

----------------------------------------------------------------------------
(* The component and the viewport; failures; cost and order of a pass *)

\* C11: once the map is ready, what the component displays is the result
\* of a pass over the current locations under the current viewport and
\* clusterDistance, also after the viewport has changed.
C11_DisplayFollowsViewport ==
    (/\ mounted
     /\ mapReady
     /\ Len(locations) > 0
     /\ ~ClusterRun(locations, map, clusterDistance).thrown)
    => clusters = createClusters(locations, map, clusterDistance)

\* Some location of the list is the first with its id and has a coordinate
\* that is not a number: the pass is bound to project it.
HasFailingPoint(locs) ==
    \E k \in DOMAIN locs :
        /\ locs[k].latitude = NaN \/ locs[k].longitude = NaN
        /\ \A j \in 1..k - 1 : locs[j].id # locs[k].id

\* C12: a step whose pass meets a point the projection throws for ends
\* with the error and without result, and leaves the displayed clusters
\* as they were.
C12_FailedPassReturnsNothing ==
    [][ (/\ pass'.called
         /\ pass'.map # NoMap
         /\ HasFailingPoint(pass'.locations))
        => (/\ pass'.thrown
            /\ pass'.result = NoResult
            /\ clusters' = clusters) ]_vars

\* A pass of the component that threw after projecting other points, while
\* a grouping was on display.
C12_Witness ==
    /\ pass.called
    /\ pass.thrown
    /\ pass.projected > 1
    /\ ~mounted
    /\ \E k \in DOMAIN clusters : IsCluster(clusters[k])

\* C13: a pass with a negative clusterDistance fails before any point is
\* projected.
C13_NegativeDistanceFails ==
    (pass.called /\ pass.clusterDistance < 0)
    => (pass.thrown /\ pass.projected = 0)

\* C14: a pass projects every input location exactly once.
C14_ProjectedOncePerPoint ==
    (Returned /\ pass.map # NoMap)
    => pass.projected = Len(pass.locations)

\* g is s with some elements left out.
RECURSIVE IsSubSeqFrom(_, _, _, _)
IsSubSeqFrom(g, s, n, k) ==
    IF n > Len(g) THEN TRUE
    ELSE IF k > Len(s) THEN FALSE
    ELSE IF g[n] = s[k] THEN IsSubSeqFrom(g, s, n + 1, k + 1)
    ELSE IsSubSeqFrom(g, s, n, k + 1)

IsSubSeq(g, s) == IsSubSeqFrom(g, s, 1, 1)

\* C17: every seed is the earliest location of the input whose id no
\* earlier group holds, it is the first member of its group, and every
\* group lists its members in input order.
C17_SeedsAndMembersInInputOrder ==
    Returned
    => \A k \in DOMAIN pass.groups :
          LET free == { n \in DOMAIN pass.locations :
                          pass.locations[n].id
                              \notin EarlierIds(pass.groups, k) }
          IN  /\ free # {}
              /\ pass.groups[k][1] = pass.locations[Min(free)]
              /\ IsSubSeq(pass.groups[k], pass.locations)

\* A group whose members are not neighbours in the input, followed by the
\* group of the location between them.
C17_Witness ==
    /\ Returned
    /\ Len(pass.locations) = 3
    /\ DistinctIds(pass.locations)
    /\ Len(pass.groups) = 2
    /\ pass.groups[1] = <<pass.locations[1], pass.locations[3]>>
    /\ pass.groups[2] = <<pass.locations[2]>>

\* C18: a pass that returns has put every input location into a group;
\* with distinct ids every location is a member of exactly one group,
\* exactly once.  The pass makes at most one seed per location and at most
\* n(n+1)/2 projections for n locations.
C18_EveryPointGrouped ==
    (Returned /\ pass.map # NoMap)
    => LET n == Len(pass.locations)
           places(l) == { <<k, i>> \in (DOMAIN pass.groups) \X (1..n + 1) :
                            /\ i \in DOMAIN pass.groups[k]
                            /\ pass.groups[k][i].id = l.id }
       IN  /\ \A l \in Range(pass.locations) : places(l) # {}
           /\ DistinctIds(pass.locations)
                => \A l \in Range(pass.locations) :
                      Cardinality(places(l)) = 1
           /\ Len(pass.groups) <= n
           /\ 2 * pass.projected <= n * (n + 1)

\* A pass over three locations that formed a cluster and a lone group.
C18_Witness ==
    /\ Returned
    /\ pass.map # NoMap
    /\ DistinctIds(pass.locations)
    /\ Len(pass.locations) = 3
    /\ Len(pass.groups) = 2
    /\ \E k \in DOMAIN pass.groups : Len(pass.groups[k]) = 2

\* C16: once auth is no longer loading, a route that requires
\* authentication does not render its children for an unauthenticated user
\* but redirects to the login route with the attempted location as
\* state.from; and for an authenticated user the login and register routes
\* redirect to the saved location, or to the dashboard when none was saved.
C16_GuardAndReturn ==
    ~auth.loading =>
       LET route == router(routeLocation.pathname)
       IN  /\ (route.guarded /\ route.requireAuth /\ ~auth.isAuthenticated)
                => /\ rendered.kind = "Navigate"
                   /\ rendered.to.pathname = ROUTES.LOGIN
                   /\ rendered.state = [from |-> routeLocation]
           /\ (route.guarded /\ ~route.requireAuth /\ auth.isAuthenticated)
                => /\ rendered.kind = "Navigate"
                   /\ rendered.to =
                        IF routeLocation.state # NoState
                        THEN [pathname |-> routeLocation.state.from.pathname,
                              search |-> routeLocation.state.from.search]
                        ELSE [pathname |-> ROUTES.DASHBOARD, search |-> ""]

\* C20: whatever the clicks, votes in flight and unmounts and remounts of
\* the card, the user's votes raise helpfulVotes of the review by at most 1.
C20_AtMostOneVote == helpfulVotes <= 1

\* What the call of view s returns when nothing else runs.
Alone(run) ==
    createClusters(run.given.locations, run.given.map,
                   run.given.clusterDistance)

\* C15: a pass leaves the list and the locations it was given as they
\* were, and what it returns depends on its three arguments only, also
\* when earlier passes have run.
C15_PassHasNoSideEffects ==
    \A s \in Slots :
        runs[s].pc # "idle"
        => /\ runs[s].locations = runs[s].given.locations
           /\ runs[s].map = runs[s].given.map
           /\ runs[s].clusterDistance = runs[s].given.clusterDistance
           /\ runs[s].pc = "done" => runs[s].result = Alone(runs[s])

\* A later pass of a view returned a cluster over locations that an
\* earlier pass of the same view had processed.
C15_Witness ==
    \E s \in Slots :
        /\ runs[s].pc = "done"
        /\ \E k \in DOMAIN runs[s].result :
              /\ IsCluster(runs[s].result[k])
              /\ \A l \in Range(runs[s].result[k].locations) :
                    l.id \in runs[s].earlier

\* C19: a call whose statements were interleaved with those of the other
\* view's call returns what it returns when run alone.
C19_InterleavedAsAlone ==
    \A s \in Slots :
        (runs[s].pc = "done" /\ runs[s].overlapped)
        => runs[s].result = Alone(runs[s])

\* Both views' calls have returned after running interleaved, over lists
\* with a common location, each with a cluster, with different results.
C19_Witness ==
    /\ \A s \in Slots :
          /\ runs[s].pc = "done"
          /\ runs[s].overlapped
          /\ \E k \in DOMAIN runs[s].result : IsCluster(runs[s].result[k])
    /\ runs[1].result # runs[2].result
    /\ Range(runs[1].given.locations) \cap Range(runs[2].given.locations)
         # {}

\* The ids of the members of the clusters pushed so far and of the group
\* under construction, in the order they were taken.
RECURSIVE TakenIdsFrom(_, _)
TakenIdsFrom(cs, k) ==
    IF k > Len(cs) THEN <<>>
    ELSE [n \in DOMAIN cs[k].locations |-> cs[k].locations[n].id]
         \o TakenIdsFrom(cs, k + 1)

TakenIds(run) ==
    TakenIdsFrom(run.clusters, 1)
    \o [n \in DOMAIN run.nearbyLocations |-> run.nearbyLocations[n].id]

\* C28: at every statement of a pass, also over a list in which several
\* locations carry the same id, no id has been taken twice, as a seed or
\* as a member, within one group or in two groups, and every id taken is
\* in processed.
C28_NoIdTakenTwice ==
    \A s \in Slots :
        LET ids == TakenIds(runs[s])
        IN  /\ \A m, n \in DOMAIN ids : m # n => ids[m] # ids[n]
            /\ Range(ids) \subseteq runs[s].processed

\* A pass over a list with the same id at two places has returned a
\* cluster that holds the first of them and another location.
C28_Witness ==
    \E s \in Slots :
        /\ runs[s].pc = "done"
        /\ ~DistinctIds(runs[s].given.locations)
        /\ DistinctPositions(runs[s].given.locations, runs[s].given.map)
        /\ Len(runs[s].given.locations) = 3
        /\ \E k \in DOMAIN runs[s].result : IsCluster(runs[s].result[k])

\* C21: whenever no login, register or logout call is in flight, the
\* provider's isAuthenticated is true exactly when the service's
\* isAuthenticated() is.
C21_ContextAgreesWithService ==
    (pending = {} /\ authCall = "none")
    => (auth.isAuthenticated <=> isAuthenticated(service))

\* C22: a login with the email of a user who registered and then logged
\* out is accepted.
C22_LoginAfterLogoutSucceeds ==
    lastLogin.after = "loggedOut" => lastLogin.accepted

\* C23: in every state the reducer's actions lead to, isAuthenticated is
\* true exactly when user is not null, and no error is present together
\* with isAuthenticated.
C23_AuthStateConsistent ==
    /\ auth.isAuthenticated <=> auth.user # NoUser
    /\ auth.isAuthenticated => auth.error = NoError

\* AUTH_START after AUTH_SUCCESS: an authenticated user while loading.
C23_Witness ==
    /\ auth.isAuthenticated
    /\ auth.loading
    /\ auth.user \in Users

\* The unread messages of conversation c that are addressed to the current
\* user, by their place in the stored list.
UnreadOf(st, c) ==
    { n \in DOMAIN GetOrEmpty(st.messages, c) :
        /\ st.messages[c][n].receiverId = CurrentUser
        /\ ~st.messages[c][n].read }

AllUnread(st) ==
    { <<c, n>> \in (DOMAIN st.messages) \X (1..3 + MaxSends + 1) :
        n \in UnreadOf(st, c) }

\* C24: every conversation's unreadCount is the number of its unread
\* messages addressed to the current user, getUnreadCount() is the number
\* of all of them, and markAsRead(c) has made both zero for c and has
\* changed no other conversation.
C24_UnreadCountsAgree ==
    /\ \A k \in DOMAIN store.conversations :
          store.conversations[k].unreadCount =
             Cardinality(UnreadOf(store, store.conversations[k].id))
    /\ getUnreadCount(store) = Cardinality(AllUnread(store))
    /\ lastReturn.call = "markAsRead"
         => LET c == lastReturn.conversationId
                before == lastReturn.before
            IN  /\ UnreadOf(store, c) = {}
                /\ \A k \in DOMAIN store.conversations :
                      IF store.conversations[k].id = c
                      THEN store.conversations[k].unreadCount = 0
                      ELSE store.conversations[k] = before.conversations[k]
                /\ Len(store.conversations) = Len(before.conversations)
                /\ DOMAIN store.messages = DOMAIN before.messages
                /\ \A d \in DOMAIN store.messages \ {c} :
                      store.messages[d] = before.messages[d]

\* markAsRead of the conversation with the two unread messages, after a
\* message was sent and a third conversation was made.
C24_Witness ==
    /\ lastReturn.call = "markAsRead"
    /\ lastReturn.conversationId = 1
    /\ getUnreadCount(lastReturn.before) = 2
    /\ getUnreadCount(store) = 0
    /\ sendsMade > 0
    /\ Len(store.conversations) > 2

\* s is the beginning of t.
IsPrefix(s, t) ==
    /\ Len(s) <= Len(t)
    /\ \A n \in DOMAIN s : s[n] = t[n]

\* C25: there is at most one conversation between the current user and
\* any other user; startConversation with a user who has a conversation
\* returns its id and creates nothing; and no sendMessage or
\* startConversation call removes or empties the stored messages of a
\* conversation that existed before it.
C25_OneConversationPerUser ==
    /\ \A u \in OtherUsers :
          Cardinality({ k \in DOMAIN store.conversations :
                          u \in Range(store.conversations[k].participants) })
             <= 1
    /\ lastReturn.call = "startConversation"
         => LET existing == findConversationWithUser(
                                lastReturn.before.conversations,
                                lastReturn.userId)
            IN  existing # NoId
                  => /\ lastReturn.conversationId = existing
                     /\ store = lastReturn.before
    /\ lastReturn.call \in {"sendMessage", "startConversation"}
         => \A c \in DOMAIN lastReturn.before.messages :
               /\ c \in DOMAIN store.messages
               /\ IsPrefix(lastReturn.before.messages[c], store.messages[c])

\* C26: in every state the messages list of the useMessaging hook holds no
\* two entries for the same sent message; in particular, once a sendMessage
\* call of the hook has resolved, listener included, the sent message is in
\* the list once and not more often.
C26_SentMessageOnce ==
    LET msgs == messagesOf(hook, store)
    IN  \A i, j \in DOMAIN msgs :
           (msgs[i].content # 0 /\ msgs[i] = msgs[j]) => i = j

\* The followingIds of the follow list of the current user are distinct.
DistinctFollowing(fs) ==
    LET userFollows == GetOrEmpty(fs, CurrentUser)
    IN  \A i, j \in DOMAIN userFollows :
           userFollows[i].followingId = userFollows[j].followingId => i = j

\* C27: after any sequence of followUser and unfollowUser calls the follow
\* list of current_user holds no two entries with the same followingId;
\* followUser on a user already followed fails and leaves the follow list
\* and all notification lists as they were; and after unfollowUser(u), so
\* also after followUser(u) followed by unfollowUser(u), isFollowing(u) is
\* false.
C27_FollowListSound ==
    /\ DistinctFollowing(follows)
    /\ (/\ lastFollow.call = "followUser"
        /\ isFollowing(lastFollow.before.follows, lastFollow.userId))
       => /\ lastFollow.thrown
          /\ follows = lastFollow.before.follows
          /\ notifications = lastFollow.before.notifications
    /\ lastFollow.call = "unfollowUser"
       => ~isFollowing(follows, lastFollow.userId)

\* followUser("user_4") has just failed because an earlier followUser made
\* user_4 followed, and user_5 was followed and then unfollowed.
C27_Witness ==
    /\ lastFollow.call = "followUser"
    /\ lastFollow.userId = "user_4"
    /\ lastFollow.thrown
    /\ isFollowing(follows, "user_4")
    /\ "user_5" \in DOMAIN notifications
    /\ ~isFollowing(follows, "user_5")

====
